---- MODULE Spec2Model ----
(***************************************************************************)
(* Airflow Prometheus exporter: the Query Layer (eight read operations on  *)
(* the orchestration store), MetricsCollector.collect() and the HTTP       *)
(* handler Metrics.index, modelled from prometheus_exporter.py.            *)
(*                                                                         *)
(* Timestamps are integers (seconds); a SQL NULL / Python None timestamp   *)
(* is Null, a NULL / None string is NullStr.  Query results and the        *)
(* samples of a metric family are bags: SQL fixes no row order.            *)
(***************************************************************************)
EXTENDS Integers, Sequences, FiniteSets, Bags, TLC

VARIABLES
    store,      \* the orchestration store: dag_model, dag_run, task_instance, task_fail
    pool,       \* the request threads of the host web server
    pc,         \* per thread: position of the scrape inside collect()
    scope,      \* per thread: the Query Layer operation whose session_scope is open
    result,     \* per thread: what the current Query Layer operation returned
    out,        \* per thread: the families collect() has yielded so far
    error,      \* per thread: the exception that left collect(), or "none"
    response,   \* per thread: what Metrics.index answered
    reads,      \* per thread: the store reads executed, in order
    conn        \* per session: whether it holds a store connection

vars == <<store, pool, pc, scope, result, out, error, response, reads, conn>>

----
\* Bounds of the model.

\* Most rows of one table in a store of the single-scrape specification.
MaxRows == 2
\* Most rows of one table in a store of the concurrent specification.
MaxConcRows == 1
\* Request threads that may scrape concurrently.
MaxThreads == 2
\* Seconds per calendar day of the modelled clock.
TicksPerDay == 2

----
\* Values of the program.

CANARY_DAG == "canary_dag"
SUCCESS == "success"
QUEUED == "queued"
FAILED == "failed"
RUNNING == "running"

Null == -1
NullStr == "<None>"

DagIds == {CANARY_DAG, "etl_daily"}
TaskIds == {"extract", "load"}
ExecDates == {1, 2}
Queues == {"default", "batch"}
Threads == 1 .. MaxThreads

----
\* Helpers: subsets of bounded size, SQL aggregates, bags of rows.

RECURSIVE KSubsets(_, _)
KSubsets(U, k) ==
    IF k = 0 THEN {{}}
    ELSE LET P == KSubsets(U, k - 1)
         IN  P \cup {s \cup {x} : s \in P, x \in U}

\* SQL max()/min(): NULLs are ignored, and the aggregate of no value is NULL.
SqlMax(S) ==
    LET V == S \ {Null}
    IN  IF V = {} THEN Null ELSE CHOOSE x \in V : \A y \in V : y <= x

SqlMin(S) ==
    LET V == S \ {Null}
    IN  IF V = {} THEN Null ELSE CHOOSE x \in V : \A y \in V : x <= y

\* The rows a query returns: one row row[j] per joined tuple j.
BagOf(row) ==
    [r \in {row[j] : j \in DOMAIN row} |->
        Cardinality({j \in DOMAIN row : row[j] = r})]

\* Primary keys of the tables.
RunKeyOk(R) == \A a, b \in R :
    (a.dag_id = b.dag_id /\ a.execution_date = b.execution_date) => a = b

TIKeyOk(T) == \A a, b \in T :
    (a.dag_id = b.dag_id /\ a.task_id = b.task_id
        /\ a.execution_date = b.execution_date) => a = b

----
\* The Query Layer: what each operation reads from store s.

\* get_dag_state_info: DAG runs grouped by (dag_id, state), counted with
\* count(state), which skips NULL states, inner-joined to the DAG's owners.
get_dag_state_info(s) ==
    LET dag_status_query ==
            {[dag_id |-> r.dag_id, state |-> r.state,
              count |-> IF r.state = NullStr THEN 0
                        ELSE Cardinality({x \in s.dag_run :
                                 x.dag_id = r.dag_id /\ x.state = r.state})]
                : r \in s.dag_run}
        J == {<<g, m>> \in dag_status_query \X s.dag_model :
                 m.dag_id = g.dag_id}
        Row(j) == [dag_id |-> j[1].dag_id, state |-> j[1].state,
                   count |-> j[1].count, owners |-> j[2].owners]
    IN  BagOf([j \in J |-> Row(j)])

\* The subquery shared by the two duration operations: per DAG the maximum
\* execution_date among its runs with state success and a non-NULL end_date.
max_execution_dt_query(s) ==
    LET ok == {r \in s.dag_run : r.state = SUCCESS /\ r.end_date # Null}
    IN  {[dag_id |-> d,
          max_execution_dt |->
              SqlMax({r.execution_date : r \in {x \in ok : x.dag_id = d}})]
            : d \in {r.dag_id : r \in ok}}

get_dag_duration_info(s) ==
    LET dag_start_dt_query ==
            {[dag_id |-> m.dag_id, execution_date |-> m.max_execution_dt,
              start_date |-> SqlMin({t.start_date : t \in {x \in s.task_instance :
                                 x.dag_id = m.dag_id
                                 /\ x.execution_date = m.max_execution_dt}})]
                : m \in {q \in max_execution_dt_query(s) :
                            \E t \in s.task_instance :
                                t.dag_id = q.dag_id
                                /\ t.execution_date = q.max_execution_dt}}
        J == {<<q, r>> \in dag_start_dt_query \X s.dag_run :
                 r.dag_id = q.dag_id /\ r.execution_date = q.execution_date}
        Row(j) == [dag_id |-> j[1].dag_id, start_date |-> j[1].start_date,
                   end_date |-> j[2].end_date]
    IN  BagOf([j \in J |-> Row(j)])

\* get_task_state_info: task instances grouped by (dag_id, task_id, state),
\* counted, inner-joined to the DAG's owners.
get_task_state_info(s) ==
    LET task_status_query ==
            {[dag_id |-> t.dag_id, task_id |-> t.task_id, state |-> t.state,
              value |-> Cardinality({x \in s.task_instance :
                            x.dag_id = t.dag_id /\ x.task_id = t.task_id
                            /\ x.state = t.state})]
                : t \in s.task_instance}
        J == {<<g, m>> \in task_status_query \X s.dag_model :
                 m.dag_id = g.dag_id}
        Row(j) == [dag_id |-> j[1].dag_id, task_id |-> j[1].task_id,
                   state |-> j[1].state, value |-> j[1].value,
                   owners |-> j[2].owners]
    IN  BagOf([j \in J |-> Row(j)])

\* get_task_failure_counts builds this query; it is evaluated by whoever
\* iterates it.
task_failure_counts_query(s) ==
    LET J == {[dag_id |-> f.dag_id, task_id |-> f.task_id] : f \in s.task_fail}
        Row(j) == [dag_id |-> j.dag_id, task_id |-> j.task_id,
                   count |-> Cardinality({f \in s.task_fail :
                                 f.dag_id = j.dag_id /\ f.task_id = j.task_id})]
    IN  BagOf([j \in J |-> Row(j)])

get_task_duration_info(s) ==
    LET okTI == {t \in s.task_instance :
                    t.state = SUCCESS /\ t.start_date # Null /\ t.end_date # Null}
        task_duration_query ==
            {[dag_id |-> k[1], task_id |-> k[2],
              max_execution_dt |->
                  SqlMax({t.execution_date : t \in {x \in okTI :
                             x.dag_id = k[1] /\ x.task_id = k[2]}})]
                : k \in {<<t.dag_id, t.task_id>> : t \in okTI}}
        task_latest_execution_dt ==
            {[dag_id |-> j[1].dag_id, task_id |-> j[1].task_id,
              execution_date |-> j[1].max_execution_dt]
                : j \in {<<q, m>> \in task_duration_query \X max_execution_dt_query(s) :
                            q.dag_id = m.dag_id
                            /\ q.max_execution_dt = m.max_execution_dt}}
        J == {<<l, t>> \in task_latest_execution_dt \X s.task_instance :
                 t.dag_id = l.dag_id /\ t.task_id = l.task_id
                 /\ t.execution_date = l.execution_date}
        Row(j) == [dag_id |-> j[1].dag_id, task_id |-> j[1].task_id,
                   start_date |-> j[2].start_date, end_date |-> j[2].end_date,
                   execution_date |-> j[1].execution_date]
    IN  BagOf([j \in J |-> Row(j)])

\* get_dag_scheduler_delay: the canary DAG's run of greatest execution_date.
get_dag_scheduler_delay(s) ==
    LET canary == {r \in s.dag_run : r.dag_id = CANARY_DAG}
        J == {r \in canary : \A x \in canary : x.execution_date <= r.execution_date}
        Row(r) == [dag_id |-> r.dag_id, execution_date |-> r.execution_date,
                   start_date |-> r.start_date]
    IN  BagOf([j \in J |-> Row(j)])

\* get_task_scheduler_delay: per queue the greatest start_date among the
\* canary DAG's task instances that were queued, joined back to the task
\* instances on (queue, start_date).
get_task_scheduler_delay(s) ==
    LET canary == {t \in s.task_instance :
                      t.dag_id = CANARY_DAG /\ t.queued_dttm # Null}
        task_status_query ==
            {[queue |-> q,
              max_start |-> SqlMax({t.start_date : t \in {x \in canary : x.queue = q}})]
                : q \in {t.queue : t \in canary}}
        J == {<<g, t>> \in task_status_query \X s.task_instance :
                 t.queue = g.queue /\ g.max_start # Null
                 /\ t.start_date = g.max_start}
        Row(j) == [queue |-> j[1].queue, execution_date |-> j[2].execution_date,
                   queued_dttm |-> j[2].queued_dttm, start_date |-> j[1].max_start]
    IN  BagOf([j \in J |-> Row(j)])

get_num_queued_tasks(s) ==
    Cardinality({t \in s.task_instance : t.state = QUEUED})

----
\* The stores a scrape may meet.  The exporter never writes the store; each
\* family below varies the tables one metric dimension reads, with at most
\* k rows per varied table.

TI(d, k, e, st, q, sd, ed, qd) ==
    [dag_id |-> d, task_id |-> k, execution_date |-> e, state |-> st,
     queue |-> q, start_date |-> sd, end_date |-> ed, queued_dttm |-> qd]

Run(d, e, st, sd, ed) ==
    [dag_id |-> d, execution_date |-> e, state |-> st,
     start_date |-> sd, end_date |-> ed]

Store(m, r, t, f) ==
    [dag_model |-> m, dag_run |-> r, task_instance |-> t, task_fail |-> f]

AllDagModels == {[dag_id |-> CANARY_DAG, owners |-> "airflow"],
                 [dag_id |-> "etl_daily", owners |-> "alice"]}
DagModelTables == {AllDagModels,
                   {[dag_id |-> "etl_daily", owners |-> "alice"]}}

\* Task instances in every state, not yet started.
TaskStatusStores(k) ==
    LET U == {TI(d, i, e, st, "default", Null, Null, Null) :
                 d \in DagIds, i \in TaskIds, e \in ExecDates,
                 st \in {NullStr, SUCCESS, QUEUED}}
    IN  {Store(m, {}, T, {}) :
            m \in DagModelTables, T \in {X \in KSubsets(U, k) : TIKeyOk(X)}}

\* DAG runs in every state, started one second after their execution_date.
RunStatusStores(k) ==
    LET U == {Run(d, e, st, e + 1, Null) :
                 d \in DagIds, e \in ExecDates, st \in {NullStr, SUCCESS, FAILED}}
    IN  {Store(m, R, {}, {}) :
            m \in DagModelTables, R \in {X \in KSubsets(U, k) : RunKeyOk(X)}}

\* Recorded task failures.
TaskFailStores(k) ==
    LET U == {[id |-> i, dag_id |-> "etl_daily", task_id |-> x] :
                 i \in 1 .. k, x \in TaskIds}
    IN  {Store(AllDagModels, {}, {}, F) :
            F \in {X \in KSubsets(U, k) : \A a, b \in X : a.id = b.id => a = b}}

\* Finished runs of one workflow and the task instances of those runs.
DurationStores(k) ==
    LET UR == {Run("etl_daily", e, x[1], e, x[2]) :
                  e \in ExecDates, x \in {<<SUCCESS, 5>>, <<SUCCESS, Null>>,
                                          <<FAILED, 5>>}}
        UT == {TI("etl_daily", i, e, x[1], "default", x[2], x[3], Null) :
                  i \in TaskIds, e \in ExecDates,
                  x \in {<<SUCCESS, 2, 4>>, <<SUCCESS, 3, 5>>,
                         <<FAILED, 2, 4>>, <<SUCCESS, Null, 4>>}}
    IN  {st \in {Store(AllDagModels, R, T, {}) :
                    R \in {X \in KSubsets(UR, k) : RunKeyOk(X)},
                    T \in {X \in KSubsets(UT, k) : TIKeyOk(X)}} :
            \A x \in st.task_instance : \E r \in st.dag_run :
                r.execution_date = x.execution_date}

\* Runs of the canary workflow and of another one, started or not.
CanaryRunStores(k) ==
    LET U == {Run(d, e, RUNNING, sd, Null) :
                 d \in DagIds, e \in ExecDates, sd \in {Null, 0, 3}}
    IN  {Store(AllDagModels, R, {}, {}) :
            R \in {X \in KSubsets(U, k) : RunKeyOk(X)}}

\* Started task instances of the canary workflow and of another one.
CanaryTaskStores(k) ==
    LET U == {TI(d, i, 1, RUNNING, q, sd, Null, qd) :
                 d \in DagIds, i \in TaskIds, q \in Queues,
                 sd \in {0, 3}, qd \in {Null, 1, 2}}
    IN  {Store(AllDagModels, {}, T, {}) :
            T \in {X \in KSubsets(U, k) : TIKeyOk(X)}}

StoreSet(k) ==
    TaskStatusStores(k) \cup RunStatusStores(k) \cup TaskFailStores(k)
        \cup DurationStores(k) \cup CanaryRunStores(k) \cup CanaryTaskStores(k)

----
\* MetricsCollector.collect(): what each loop makes of the rows it is given.

Sample(labels, value) == [labels |-> labels, value |-> value]

GaugeMetricFamily(name, samples) == [name |-> name, samples |-> samples]

\* timedelta.total_seconds() of (a - b).
TotalSeconds(a, b) == a - b

\* str(execution_date.date()): the calendar day of a timestamp.
DateStr(ts) == ToString(ts \div TicksPerDay)

\* The status label without the fallback: the state as it is, null or not.
StatusLabel_passed_through(state) == state

\* `task.state or 'none'`.
StatusLabel(state) == IF state = NullStr \/ state = "" THEN "none" ELSE state

\* `dag.state`, as the DAG-status loop passes it.
DagStatusLabel(state) == state

\* The samples add_metric() appends over the rows of a result: one per row.
RECURSIVE SumCopies(_, _)
SumCopies(B, S) ==
    IF S = {} THEN 0
    ELSE LET r == CHOOSE x \in S : TRUE
         IN  B[r] + SumCopies(B, S \ {r})

BagMap(B, f) ==
    [x \in {f[r] : r \in DOMAIN B} |->
        SumCopies(B, {r \in DOMAIN B : f[r] = x})]

\* Lines 266-276: the task-status loop.
TaskStateFamily(rows) ==
    GaugeMetricFamily("airflow_task_status",
        BagMap(rows, [r \in DOMAIN rows |->
                         Sample(<<r.dag_id, r.task_id, r.owners,
                                  StatusLabel(r.state)>>, r.value)]))

\* Lines 283-288: the loop rebinds task_duration to the float of the first
\* row and then calls add_metric on it; rows come in no fixed order.
TaskDurationRaises(rows) ==
    {IF r.start_date = Null \/ r.end_date = Null
         THEN "TypeError" ELSE "AttributeError" : r \in DOMAIN rows}

\* Lines 278-289: the family as yielded, which is when no row came back.
TaskDurationFamily(rows) ==
    GaugeMetricFamily("airflow_task_duration", EmptyBag)

\* Lines 291-301.
TaskFailureFamily(rows) ==
    GaugeMetricFamily("airflow_task_fail_count",
        BagMap(rows, [r \in DOMAIN rows |->
                         Sample(<<r.dag_id, r.task_id>>, r.count)]))

\* Lines 305-315.
DagStateFamily(rows) ==
    GaugeMetricFamily("airflow_dag_status",
        BagMap(rows, [r \in DOMAIN rows |->
                         Sample(<<r.dag_id, r.owners,
                                  DagStatusLabel(r.state)>>, r.count)]))

\* Lines 322-327: as in the task-duration loop.
DagDurationRaises(rows) ==
    {IF r.start_date = Null \/ r.end_date = Null
         THEN "TypeError" ELSE "AttributeError" : r \in DOMAIN rows}

\* Lines 317-328.
DagDurationFamily(rows) ==
    GaugeMetricFamily("airflow_dag_run_duration", EmptyBag)

\* Lines 337-339: None - datetime raises TypeError.
DagSchedulerDelayRaises(rows) ==
    {"TypeError" : r \in {x \in DOMAIN rows :
                            x.start_date = Null \/ x.execution_date = Null}}

\* Lines 331-344.
DagSchedulerDelayFamily(rows) ==
    GaugeMetricFamily("airflow_dag_scheduler_delay",
        BagMap(rows, [r \in DOMAIN rows |->
                         Sample(<<r.dag_id>>,
                                TotalSeconds(r.start_date, r.execution_date))]))

\* Lines 352-354.
TaskSchedulerDelayRaises(rows) ==
    {"TypeError" : r \in {x \in DOMAIN rows :
                            x.start_date = Null \/ x.queued_dttm = Null}}

\* Lines 346-359.
TaskSchedulerDelayFamily(rows) ==
    GaugeMetricFamily("airflow_task_scheduler_delay",
        BagMap(rows, [r \in DOMAIN rows |->
                         Sample(<<r.queue>>,
                                TotalSeconds(r.start_date, r.queued_dttm))]))

\* Lines 361-368: one sample without labels.
NumQueuedFamily(n) ==
    GaugeMetricFamily("airflow_num_queued_tasks", SetToBag({Sample(<<>>, n)}))

----
\* The scrape: Metrics.index -> generate_latest -> collect() -> Query Layer.

\* airflow.settings.Session is a scoped_session: each thread gets its own
\* session from the registry, whichever operation asks.
SessionOf(t) == t

NoResult == [kind |-> "none", rows |-> EmptyBag]
Pending == [status |-> "pending", body |-> <<>>]

\* Where collect() goes after yielding the family of an operation.
NextPc(op) ==
    CASE op = "task_state"    -> "task_duration"
      [] op = "task_duration" -> "task_fail"
      [] op = "task_fail"     -> "dag_state"
      [] op = "dag_state"     -> "dag_duration"
      [] op = "dag_duration"  -> "dag_sched"
      [] op = "dag_sched"     -> "task_sched"
      [] op = "task_sched"    -> "num_queued"
      [] op = "num_queued"    -> "done"

\* The operations that evaluate their query (.all(), .count()) themselves.
EagerOps == {"task_state", "task_duration", "dag_state", "dag_duration",
             "dag_sched", "task_sched", "num_queued"}

\* What an evaluated query of operation op returns on store s.
Rows(op, s) ==
    CASE op = "task_state"    -> get_task_state_info(s)
      [] op = "task_duration" -> get_task_duration_info(s)
      [] op = "task_fail"     -> task_failure_counts_query(s)
      [] op = "dag_state"     -> get_dag_state_info(s)
      [] op = "dag_duration"  -> get_dag_duration_info(s)
      [] op = "dag_sched"     -> get_dag_scheduler_delay(s)
      [] op = "task_sched"    -> get_task_scheduler_delay(s)
      [] op = "num_queued"    -> SetToBag({[count |-> get_num_queued_tasks(s)]})

\* The exceptions the loop over the rows of op can raise.
LoopRaises(op, rows) ==
    CASE op = "task_duration" -> TaskDurationRaises(rows)
      [] op = "dag_duration"  -> DagDurationRaises(rows)
      [] op = "dag_sched"     -> DagSchedulerDelayRaises(rows)
      [] op = "task_sched"    -> TaskSchedulerDelayRaises(rows)
      [] OTHER                -> {}

\* The family collect() yields for op when its loop raised nothing.
Family(op, rows) ==
    CASE op = "task_state"    -> TaskStateFamily(rows)
      [] op = "task_duration" -> TaskDurationFamily(rows)
      [] op = "task_fail"     -> TaskFailureFamily(rows)
      [] op = "dag_state"     -> DagStateFamily(rows)
      [] op = "dag_duration"  -> DagDurationFamily(rows)
      [] op = "dag_sched"     -> DagSchedulerDelayFamily(rows)
      [] op = "task_sched"    -> TaskSchedulerDelayFamily(rows)
      [] op = "num_queued"    ->
            NumQueuedFamily((CHOOSE r \in DOMAIN rows : TRUE).count)

TypeOK ==
    /\ pool \subseteq Threads
    /\ pc \in [Threads -> {"idle", "task_fail_iter", "done", "raised"}
                            \cup EagerOps \cup {"task_fail"}]
    /\ scope \in [Threads -> {"none", "task_fail"} \cup EagerOps]
    /\ error \in [Threads -> {"none", "StoreError", "AttributeError", "TypeError"}]
    /\ conn \in [Threads -> {"closed", "open"}]
    /\ \A t \in Threads : response[t].status \in {"pending", "200", "500"}

InitOn(S, P) ==
    /\ store \in S
    /\ pool = P
    /\ pc = [t \in Threads |-> "idle"]
    /\ scope = [t \in Threads |-> "none"]
    /\ result = [t \in Threads |-> NoResult]
    /\ out = [t \in Threads |-> <<>>]
    /\ error = [t \in Threads |-> "none"]
    /\ response = [t \in Threads |-> Pending]
    /\ reads = [t \in Threads |-> <<>>]
    /\ conn = [t \in Threads |-> "closed"]

\* One request thread, every store of at most MaxRows rows per table.
Init == InitOn(StoreSet(MaxRows), {1})

\* Every request thread, every store of at most MaxConcRows rows per table.
InitConc == InitOn(StoreSet(MaxConcRows), Threads)

\* Metrics.index is entered: generate_latest() starts to iterate collect().
index(t) ==
    /\ t \in pool /\ pc[t] = "idle"
    /\ pc' = [pc EXCEPT ![t] = "task_state"]
    /\ UNCHANGED <<store, pool, scope, result, out, error, response, reads, conn>>

\* Thread t's session reads the store for operation op while session scope
\* sc is open; the session holds a connection from then on.
Execute(t, op, sc, ok, acquired) ==
    /\ reads' = [reads EXCEPT ![t] =
                    Append(@, [op |-> op, scope |-> sc, ok |-> ok])]
    /\ conn' = IF acquired THEN [conn EXCEPT ![SessionOf(t)] = "open"] ELSE conn

\* session_scope's finally: session.close().
Close(t) == conn' = [conn EXCEPT ![SessionOf(t)] = "closed"]

\* An exception leaves collect(): nothing in collect() catches it.
Propagate(t, e) ==
    /\ pc' = [pc EXCEPT ![t] = "raised"]
    /\ error' = [error EXCEPT ![t] = e]
    /\ out' = out

\* collect() loops over the rows of op and yields its family, or raises.
LoopAndYield(t, op, rows) ==
    \/ /\ LoopRaises(op, rows) = {}
       /\ out' = [out EXCEPT ![t] = Append(@, Family(op, rows))]
       /\ pc' = [pc EXCEPT ![t] = NextPc(op)]
       /\ error' = error
    \/ \E e \in LoopRaises(op, rows) : Propagate(t, e)

\* One of the seven operations that end in .all() or .count() enters its
\* session scope and evaluates its query.
QueryEvaluated(t) ==
    /\ t \in pool /\ pc[t] \in EagerOps /\ scope[t] = "none"
    /\ scope' = [scope EXCEPT ![t] = pc[t]]
    /\ Execute(t, pc[t], pc[t], TRUE, TRUE)
    /\ result' = [result EXCEPT ![t] = [kind |-> "rows", rows |-> Rows(pc[t], store)]]
    /\ UNCHANGED <<store, pool, pc, out, error, response>>

\* The same, the store failing: either no connection is obtained, or the
\* statement fails on the connection the session now holds.
QueryRaises(t) ==
    /\ t \in pool /\ pc[t] \in EagerOps /\ scope[t] = "none"
    /\ scope' = [scope EXCEPT ![t] = pc[t]]
    /\ \E acquired \in BOOLEAN : Execute(t, pc[t], pc[t], FALSE, acquired)
    /\ result' = [result EXCEPT ![t] = [kind |-> "error", rows |-> EmptyBag]]
    /\ UNCHANGED <<store, pool, pc, out, error, response>>

\* The operation leaves its session scope and returns to collect(), which
\* loops over the rows and yields the family; an exception of the query
\* passes through the finally and out of collect().
ReturnAndCollect(t) ==
    /\ t \in pool /\ pc[t] \in EagerOps /\ scope[t] = pc[t]
    /\ scope' = [scope EXCEPT ![t] = "none"]
    /\ Close(t)
    /\ result' = [result EXCEPT ![t] = NoResult]
    /\ IF result[t].kind = "error"
         THEN Propagate(t, "StoreError")
         ELSE LoopAndYield(t, pc[t], result[t].rows)
    /\ UNCHANGED <<store, pool, response, reads>>

\* get_task_failure_counts enters its session scope and builds its query.
get_task_failure_counts(t) ==
    /\ t \in pool /\ pc[t] = "task_fail" /\ scope[t] = "none"
    /\ scope' = [scope EXCEPT ![t] = "task_fail"]
    /\ result' = [result EXCEPT ![t] = [kind |-> "query", rows |-> EmptyBag]]
    /\ UNCHANGED <<store, pool, pc, out, error, response, reads, conn>>

\* ... and returns the query, unevaluated, through the finally.
get_task_failure_counts_return(t) ==
    /\ t \in pool /\ pc[t] = "task_fail" /\ scope[t] = "task_fail"
    /\ scope' = [scope EXCEPT ![t] = "none"]
    /\ Close(t)
    /\ pc' = [pc EXCEPT ![t] = "task_fail_iter"]
    /\ UNCHANGED <<store, pool, result, out, error, response, reads>>

\* collect() iterates the returned query: the session evaluates it now.
IterateTaskFailures(t) ==
    /\ t \in pool /\ pc[t] = "task_fail_iter"
    /\ Execute(t, "task_fail", scope[t], TRUE, TRUE)
    /\ LoopAndYield(t, "task_fail", Rows("task_fail", store))
    /\ result' = [result EXCEPT ![t] = NoResult]
    /\ UNCHANGED <<store, pool, scope, response>>

\* The same, the store failing.
IterateTaskFailuresRaises(t) ==
    /\ t \in pool /\ pc[t] = "task_fail_iter"
    /\ \E acquired \in BOOLEAN : Execute(t, "task_fail", scope[t], FALSE, acquired)
    /\ Propagate(t, "StoreError")
    /\ result' = [result EXCEPT ![t] = NoResult]
    /\ UNCHANGED <<store, pool, scope, response>>

\* generate_latest() has exhausted collect(): index returns the Response.
index_return(t) ==
    /\ t \in pool /\ pc[t] = "done" /\ response[t].status = "pending"
    /\ response' = [response EXCEPT ![t] = [status |-> "200", body |-> out[t]]]
    /\ UNCHANGED <<store, pool, pc, scope, result, out, error, reads, conn>>

\* A handler that catches the exception and answers with what was yielded.
index_raise_swallowed(t) ==
    /\ t \in pool /\ pc[t] = "raised" /\ response[t].status = "pending"
    /\ response' = [response EXCEPT ![t] = [status |-> "200", body |-> out[t]]]
    /\ UNCHANGED <<store, pool, pc, scope, result, out, error, reads, conn>>

\* The exception passes through generate_latest() and index: no Response.
index_raise(t) ==
    /\ t \in pool /\ pc[t] = "raised" /\ response[t].status = "pending"
    /\ response' = [response EXCEPT ![t] = [status |-> "500", body |-> <<>>]]
    /\ UNCHANGED <<store, pool, pc, scope, result, out, error, reads, conn>>

Next ==
    \E t \in Threads :
        \/ index(t)
        \/ QueryEvaluated(t)
        \/ QueryRaises(t)
        \/ ReturnAndCollect(t)
        \/ get_task_failure_counts(t)
        \/ get_task_failure_counts_return(t)
        \/ IterateTaskFailures(t)
        \/ IterateTaskFailuresRaises(t)
        \/ index_return(t)
        \/ index_raise(t)

Spec == Init /\ [][Next]_vars

SpecConc == InitConc /\ [][Next]_vars

----
\* Properties.

Terminated(t) == pc[t] \in {"done", "raised"}

\* The families of the given name that collect() has yielded in thread t.
Yielded(t, name) == {out[t][i] : i \in {j \in 1 .. Len(out[t]) : out[t][j].name = name}}

\* Thread t's query of operation op has returned its rows to collect().
Returned(t, op) ==
    /\ \E i \in 1 .. Len(reads[t]) : reads[t][i].op = op /\ reads[t][i].ok
    /\ scope[t] # op

StoreFailed(t) == \E i \in 1 .. Len(reads[t]) : ~reads[t][i].ok

\* C1: for every row of the task-duration query and of the DAG-run-duration
\* query, collect() emits one sample of (end_date - start_date) seconds in
\* that query's family, all rows in the one family, and does not fail
\* because rows exist.
C1_DurationRowsEmitted ==
    \A t \in Threads :
        /\ Returned(t, "task_duration") =>
              LET rows == get_task_duration_info(store)
              IN  Yielded(t, "airflow_task_duration") =
                    {GaugeMetricFamily("airflow_task_duration",
                        BagMap(rows, [r \in DOMAIN rows |->
                            Sample(<<r.task_id, r.dag_id, DateStr(r.execution_date)>>,
                                   r.end_date - r.start_date)]))}
        /\ Returned(t, "dag_duration") =>
              LET rows == get_dag_duration_info(store)
              IN  Yielded(t, "airflow_dag_run_duration") =
                    {GaugeMetricFamily("airflow_dag_run_duration",
                        BagMap(rows, [r \in DOMAIN rows |->
                            Sample(<<r.dag_id>>, r.end_date - r.start_date)]))}

\* C2: the task-status family that collect() yields holds exactly one sample
\* per (dag_id, task_id, owner, status) combination of the rows the
\* task-status query returned, valued with that row's count, and a row whose
\* state is null carries the status label "none".
C2_TaskStatusSamples ==
    \A t \in Threads : \A fam \in Yielded(t, "airflow_task_status") :
        LET rows == get_task_state_info(store)
            Labels(r) == <<r.dag_id, r.task_id, r.owners,
                           IF r.state = NullStr THEN "none" ELSE r.state>>
        IN  /\ \A r \in DOMAIN rows :
                  /\ Cardinality({x \in DOMAIN fam.samples :
                                     x.labels = Labels(r)}) = 1
                  /\ CopiesIn(Sample(Labels(r), r.value), fam.samples) = 1
            /\ BagCardinality(fam.samples) = BagCardinality(rows)

\* A scrape has yielded a task-status family of two samples, one of them for
\* task instances without a state.
C2_Witness ==
    \E fam \in Yielded(1, "airflow_task_status") :
        /\ BagCardinality(fam.samples) = 2
        /\ \E x \in DOMAIN fam.samples : x.labels[4] = "none"
        /\ \E r \in DOMAIN get_task_state_info(store) : r.state = NullStr

\* The store without the rows of any workflow but the canary.
CanaryOnly(s) ==
    [s EXCEPT !.dag_run = {r \in @ : r.dag_id = CANARY_DAG},
              !.task_instance = {x \in @ : x.dag_id = CANARY_DAG}]

\* C3: the samples of the two scheduler-delay families are computed from
\* rows of the canary workflow only: the rows of other workflows contribute
\* nothing to them, so the families are those of the store without them.
C3_CanaryScoping ==
    \A t \in Threads :
        /\ \A fam \in Yielded(t, "airflow_dag_scheduler_delay") :
              fam = DagSchedulerDelayFamily(
                        get_dag_scheduler_delay(CanaryOnly(store)))
        /\ \A fam \in Yielded(t, "airflow_task_scheduler_delay") :
              fam = TaskSchedulerDelayFamily(
                        get_task_scheduler_delay(CanaryOnly(store)))

IntervalFamilies == {"airflow_task_duration", "airflow_dag_run_duration",
                     "airflow_dag_scheduler_delay", "airflow_task_scheduler_delay"}

\* C4: collect() never yields a negative value in an interval-valued family
\* (an end before a start fails the scrape instead).
C4_NoNegativeInterval ==
    \A t \in Threads : \A i \in 1 .. Len(out[t]) :
        out[t][i].name \in IntervalFamilies =>
            \A x \in DOMAIN out[t][i].samples : x.value >= 0

\* C5: once collect() has terminated, normally or by raising, the session
\* its Query Layer operations used holds no store connection.
C5_SessionsReleased ==
    \A t \in Threads : Terminated(t) => conn[SessionOf(t)] = "closed"

\* C6: for every row of the DAG-status query, a null state included, the
\* DAG-status family holds a sample whose status label is the state, or the
\* sentinel "none" for a null state; no sample carries a null label.
C6_DagNullStateSentinel ==
    \A t \in Threads : \A fam \in Yielded(t, "airflow_dag_status") :
        /\ \A r \in DOMAIN get_dag_state_info(store) :
              \E x \in DOMAIN fam.samples :
                  x.labels = <<r.dag_id, r.owners,
                               IF r.state = NullStr THEN "none" ELSE r.state>>
        /\ \A x \in DOMAIN fam.samples : x.labels[3] # NullStr

\* C7: a Query Layer operation that fails is the last store read of its
\* scrape (no retry, no further query), its error leaves collect() as it is,
\* and the handler answers with no metrics body, whatever was yielded before.
C7_FailurePropagates ==
    \A t \in Threads :
        /\ \A i, j \in 1 .. Len(reads[t]) :
              reads[t][i].op = reads[t][j].op => i = j
        /\ \A i \in 1 .. Len(reads[t]) : ~reads[t][i].ok =>
              /\ i = Len(reads[t])
              /\ \/ pc[t] = reads[t][i].op /\ scope[t] = pc[t]
                 \/ pc[t] = "raised" /\ error[t] = "StoreError"
              /\ response[t].status # "200"
              /\ response[t].body = <<>>

\* The last of the eight queries failed after seven families were yielded,
\* and the handler has answered.
C7_Witness ==
    /\ StoreFailed(1)
    /\ Len(out[1]) = 7
    /\ response[1].status = "500"

\* C8: scrapes that interleave against an unchanging store all run to
\* completion and yield the same families and samples, and a session in use
\* for a query in progress is not closed by another scrape.
C8_ConcurrentScrapesComplete ==
    /\ \A t \in Threads : (Terminated(t) /\ ~StoreFailed(t)) => pc[t] = "done"
    /\ \A t, u \in Threads :
          (pc[t] = "done" /\ pc[u] = "done") => out[t] = out[u]
    /\ \A t \in Threads :
          (scope[t] \in EagerOps /\ result[t].kind = "rows") =>
              conn[SessionOf(t)] = "open"

\* C9: every store read of collect() is executed while the session scope of
\* the Query Layer operation that built the query is open.
C9_ReadsInsideScope ==
    \A t \in Threads : \A i \in 1 .. Len(reads[t]) :
        reads[t][i].scope = reads[t][i].op

\* The run of workflow d that is its latest successful run, if it has one.
LatestSuccessfulRuns(s, d) ==
    LET ok == {r \in s.dag_run :
                  r.dag_id = d /\ r.state = SUCCESS /\ r.end_date # Null}
    IN  {r \in ok : \A x \in ok : x.execution_date <= r.execution_date}

\* C10: get_task_duration_info returns exactly one row for each task
\* instance that is successful, with start and end, in the latest successful
\* run of its workflow, carrying its start_date, end_date and execution_date,
\* and no other row.
C10_TaskDurationRows ==
    \A t \in Threads :
        (pc[t] = "task_duration" /\ result[t].kind = "rows") =>
            result[t].rows =
                SetToBag({[dag_id |-> x.dag_id, task_id |-> x.task_id,
                           start_date |-> x.start_date, end_date |-> x.end_date,
                           execution_date |-> x.execution_date] :
                    x \in {y \in store.task_instance :
                              /\ y.state = SUCCESS
                              /\ y.start_date # Null /\ y.end_date # Null
                              /\ \E r \in LatestSuccessfulRuns(store, y.dag_id) :
                                    r.execution_date = y.execution_date}})

====
